---- MODULE Spec2Model ----
(***************************************************************************)
(* Model of pdf.py: the merge, split and compress commands of the PDF      *)
(* command-line tool, run against a small file system.                     *)
(*                                                                         *)
(* A path is a sequence of one-character strings, so that endswith, lower, *)
(* strip, os.path.join and glob matching are computed on the characters.   *)
(***************************************************************************)
EXTENDS Integers, Sequences, FiniteSets, TLC

\* ------------------------------------------------------------------------
\* Bounds
\* ------------------------------------------------------------------------

\* Number of times the same merge command line is run in a row.
MaxRuns == 2

\* Number of source files the environment may remove while a merge runs.
MaxUnlinks == 1

\* ------------------------------------------------------------------------
\* Characters and strings
\* ------------------------------------------------------------------------

\* Code points of the characters that occur in the modelled paths.
ord ==
    ("\n" :> 10) @@ (" " :> 32) @@ ("*" :> 42) @@ ("." :> 46) @@ ("/" :> 47) @@
    ("?" :> 63) @@ ("A" :> 65) @@ ("D" :> 68) @@ ("F" :> 70) @@ ("P" :> 80) @@
    ("^" :> 94) @@
    ("a" :> 97) @@ ("b" :> 98) @@ ("c" :> 99) @@ ("d" :> 100) @@ ("e" :> 101) @@
    ("f" :> 102) @@ ("g" :> 103) @@ ("i" :> 105) @@ ("l" :> 108) @@ ("m" :> 109) @@
    ("n" :> 110) @@ ("o" :> 111) @@ ("p" :> 112) @@ ("r" :> 114) @@
    ("s" :> 115) @@ ("t" :> 116) @@ ("v" :> 118) @@ ("w" :> 119) @@
    ("x" :> 120) @@ ("z" :> 122)

Chars == DOMAIN ord

Reverse(s) == [i \in 1..Len(s) |-> s[Len(s) + 1 - i]]

\* str.endswith(suffix)
endswith(s, suffix) ==
    /\ Len(suffix) <= Len(s)
    /\ SubSeq(s, Len(s) - Len(suffix) + 1, Len(s)) = suffix

\* str.startswith(prefix)
startswith(s, prefix) ==
    /\ Len(prefix) <= Len(s)
    /\ SubSeq(s, 1, Len(prefix)) = prefix

\* str.lower(), character by character
lower_char(c) ==
    IF ord[c] >= 65 /\ ord[c] <= 90
    THEN CHOOSE d \in Chars : ord[d] = ord[c] + 32
    ELSE c

lower(s) == [i \in 1..Len(s) |-> lower_char(s[i])]

\* str.strip(): leading and trailing white space removed
IsSpace(c) == c \in {" ", "\n"}

RECURSIVE lstrip(_)
lstrip(s) ==
    IF s # <<>> /\ IsSpace(Head(s)) THEN lstrip(Tail(s)) ELSE s

strip(s) == Reverse(lstrip(Reverse(lstrip(s))))

\* Python's < on str: lexicographic by code point
RECURSIVE str_lt(_, _)
str_lt(a, b) ==
    IF b = <<>> THEN FALSE
    ELSE IF a = <<>> THEN TRUE
    ELSE IF ord[Head(a)] # ord[Head(b)] THEN ord[Head(a)] < ord[Head(b)]
    ELSE str_lt(Tail(a), Tail(b))

\* ------------------------------------------------------------------------
\* Paths
\* ------------------------------------------------------------------------

DotPdf == <<".", "p", "d", "f">>

cwd == <<"/", "w">>
other_dir == <<"/", "v">>

n_a == <<"a">> \o DotPdf
n_A == <<"A">> \o DotPdf
n_b == <<"b">> \o DotPdf
n_cPDF == <<"c", ".", "P", "D", "F">>
n_s == <<"s">> \o DotPdf
n_n == <<"n">> \o DotPdf
n_list == <<"l", ".", "t", "x", "t">>
n_pipe == <<"p">>
n_o == <<"o">>
n_merged == <<"m", "e", "r", "g", "e", "d">> \o DotPdf
n_compressed == <<"c", "o", "m", "p", "r", "e", "s", "s", "e", "d">> \o DotPdf
abs_g == other_dir \o <<"/", "g">> \o DotPdf
abs_z == other_dir \o <<"/", "z">> \o DotPdf

\* os.path.join(a, b) for two components
os_path_join(a, b) ==
    IF startswith(b, <<"/">>) THEN b
    ELSE IF a = <<>> \/ endswith(a, <<"/">>) THEN a \o b
    ELSE a \o <<"/">> \o b

\* The file a path string names: a relative path is resolved by the
\* operating system against the current working directory.
Resolve(p) == os_path_join(cwd, p)

RECURSIVE LastSlash(_)
LastSlash(p) ==
    IF p = <<>> THEN 0
    ELSE IF p[Len(p)] = "/" THEN Len(p)
    ELSE LastSlash(SubSeq(p, 1, Len(p) - 1))

basename(p) == SubSeq(p, LastSlash(p) + 1, Len(p))
dirname(p) == SubSeq(p, 1, LastSlash(p) - 1)

\* ------------------------------------------------------------------------
\* File system
\* ------------------------------------------------------------------------

\* kind: "none" (no such file), "file" (regular), "dir", "fifo" (a pipe or
\* other special file).  pdf: the bytes read from the file parse as a PDF.
\* pages: the pages of that PDF.  size: st_size.  mtime: st_mtime.
NoFile == [kind |-> "none", pdf |-> FALSE, pages |-> <<>>, size |-> 0, mtime |-> 0]

AllPaths ==
    { os_path_join(cwd, n) :
        n \in {n_a, n_A, n_b, n_cPDF, n_s, n_list, n_pipe, n_o, n_merged,
               n_compressed} }
    \cup {abs_g, abs_z}

\* Size of a PDF the library writes: a header and the pages.
PdfSize(pages) == 1 + Len(pages)

\* A file system the program can be started in.  A regular file of size 0
\* holds no bytes and so is not a PDF; a pipe has st_size 0 whatever is
\* written into it.
InitialFS(merged_exists) ==
    [p \in AllPaths |->
        CASE p = os_path_join(cwd, n_a) ->
               [kind |-> "file", pdf |-> TRUE, pages |-> <<"a1">>, size |-> 2, mtime |-> 2]
          [] p = os_path_join(cwd, n_A) ->
               [kind |-> "file", pdf |-> TRUE, pages |-> <<"A1">>, size |-> 2, mtime |-> 3]
          [] p = os_path_join(cwd, n_b) ->
               [kind |-> "file", pdf |-> TRUE, pages |-> <<"b1", "b2">>, size |-> 3, mtime |-> 1]
          [] p = os_path_join(cwd, n_cPDF) ->
               [kind |-> "file", pdf |-> TRUE, pages |-> <<"c1">>, size |-> 2, mtime |-> 4]
          [] p = os_path_join(cwd, n_s) ->
               [kind |-> "dir", pdf |-> FALSE, pages |-> <<>>, size |-> 4, mtime |-> 1]
          [] p = os_path_join(cwd, n_list) ->
               [kind |-> "file", pdf |-> FALSE, pages |-> <<>>, size |-> 5, mtime |-> 5]
          [] p = os_path_join(cwd, n_pipe) ->
               [kind |-> "fifo", pdf |-> TRUE, pages |-> <<"p1">>, size |-> 0, mtime |-> 5]
          [] p = abs_g ->
               [kind |-> "file", pdf |-> FALSE, pages |-> <<>>, size |-> 0, mtime |-> 2]
          [] p = abs_z ->
               [kind |-> "file", pdf |-> TRUE, pages |-> <<>>, size |-> 1, mtime |-> 3]
          [] p = os_path_join(cwd, n_merged) /\ merged_exists ->
               [kind |-> "file", pdf |-> TRUE, pages |-> <<"m1">>, size |-> 2, mtime |-> 4]
          [] OTHER -> NoFile]

\* os.stat of a path string
Stat(f, p) == IF Resolve(p) \in DOMAIN f THEN f[Resolve(p)] ELSE NoFile

os_path_isfile(f, p) == Stat(f, p).kind = "file"
os_path_getsize(f, p) == Stat(f, p).size
os_path_getmtime(f, p) == Stat(f, p).mtime

\* click.Path(exists=True, dir_okay=False): any existing non-directory
ClickPathFile(f, p) == Stat(f, p).kind \in {"file", "fifo"}

RECURSIVE MaxMtime(_, _)
MaxMtime(f, S) ==
    IF S = {} THEN 0
    ELSE LET p == CHOOSE q \in S : TRUE
             m == MaxMtime(f, S \ {p})
         IN IF f[p].mtime > m THEN f[p].mtime ELSE m

\* The file system after a PDF with the given pages is written to path p.
WritePdf(f, p, pages) ==
    [f EXCEPT ![Resolve(p)] =
        [kind |-> "file", pdf |-> TRUE, pages |-> pages,
         size |-> PdfSize(pages), mtime |-> 1 + MaxMtime(f, DOMAIN f)]]

\* The contents of the list file: its lines, as f.readlines() returns them.
ListContents ==
    { << <<" ">> \o n_b \o <<" ", "\n">>,
         n_n \o <<"\n">>,
         n_list \o <<"\n">>,
         n_a >>,
      << n_list \o <<"\n">>, <<"\n">> >> }

\* Orders in which the operating system lists the directory entries.
DirOrders ==
    { << os_path_join(cwd, n_b), os_path_join(cwd, n_merged), os_path_join(cwd, n_s),
         os_path_join(cwd, n_A), os_path_join(cwd, n_cPDF), os_path_join(cwd, n_a),
         os_path_join(cwd, n_list), os_path_join(cwd, n_pipe), os_path_join(cwd, n_o),
         os_path_join(cwd, n_compressed), abs_z, abs_g >>,
      << abs_g, abs_z,
         os_path_join(cwd, n_a), os_path_join(cwd, n_A), os_path_join(cwd, n_b),
         os_path_join(cwd, n_cPDF), os_path_join(cwd, n_compressed),
         os_path_join(cwd, n_list), os_path_join(cwd, n_merged), os_path_join(cwd, n_o),
         os_path_join(cwd, n_pipe), os_path_join(cwd, n_s) >> }

\* ------------------------------------------------------------------------
\* glob
\* ------------------------------------------------------------------------

\* fnmatch.fnmatchcase(name, pat) for patterns made of literals, * and ?
RECURSIVE fnmatch(_, _)
fnmatch(name, pat) ==
    IF pat = <<>> THEN name = <<>>
    ELSE IF Head(pat) = "*"
         THEN fnmatch(name, Tail(pat)) \/ (name # <<>> /\ fnmatch(Tail(name), pat))
    ELSE IF name = <<>> THEN FALSE
    ELSE (Head(pat) = "?" \/ Head(pat) = Head(name)) /\ fnmatch(Tail(name), Tail(pat))

\* glob keeps an entry of the directory when its name matches the pattern;
\* a name that starts with a dot only matches a pattern that starts with one.
GlobKeeps(f, pathname, entry) ==
    /\ f[entry].kind # "none"
    /\ dirname(entry) = dirname(pathname)
    /\ fnmatch(basename(entry), basename(pathname))
    /\ (startswith(basename(entry), <<".">>) => startswith(basename(pathname), <<".">>))

RECURSIVE GlobFilter(_, _, _)
GlobFilter(f, pathname, entries) ==
    IF entries = <<>> THEN <<>>
    ELSE (IF GlobKeeps(f, pathname, Head(entries)) THEN <<Head(entries)>> ELSE <<>>)
         \o GlobFilter(f, pathname, Tail(entries))

\* glob(pathname): the matching entries, in directory order
glob(f, order, pathname) == GlobFilter(f, pathname, order)

\* ------------------------------------------------------------------------
\* Helpers of the commands
\* ------------------------------------------------------------------------

\* _check_pdfs without the suffix test
RECURSIVE _check_pdfs_any_suffix(_, _)
_check_pdfs_any_suffix(f, pdfs) ==
    IF pdfs = <<>> THEN <<>>
    ELSE (IF os_path_isfile(f, Head(pdfs)) THEN <<Head(pdfs)>> ELSE <<>>)
         \o _check_pdfs_any_suffix(f, Tail(pdfs))

\* _check_pdfs: the candidates that are regular files and end with ".pdf"
RECURSIVE _check_pdfs(_, _)
_check_pdfs(f, pdfs) ==
    IF pdfs = <<>> THEN <<>>
    ELSE (IF os_path_isfile(f, Head(pdfs)) /\ endswith(Head(pdfs), DotPdf)
          THEN <<Head(pdfs)>> ELSE <<>>)
         \o _check_pdfs(f, Tail(pdfs))

\* The list comprehension over f.readlines() of the list file
RECURSIVE ReadList(_)
ReadList(lines) ==
    IF lines = <<>> THEN <<>>
    ELSE (IF endswith(strip(Head(lines)), DotPdf)
          THEN <<strip(Head(lines))>> ELSE <<>>)
         \o ReadList(Tail(lines))

\* [os.path.join(dir, file) for file in files]
JoinAll(dir, files) == [i \in 1..Len(files) |-> os_path_join(dir, files[i])]

opt_name == <<"n", "a", "m", "e">>
opt_date == <<"d", "a", "t", "e">>
opt_size == <<"s", "i", "z", "e">>
Caret == <<"^">>
None == <<>>

\* The --sort choices; None when the option is absent.
SortChoices ==
    {None, opt_name, opt_date, opt_size,
     Caret \o opt_name, Caret \o opt_date, Caret \o opt_size}

\* sort_key(a) < sort_key(b) for the key the option selects
KeyLess(f, option, a, b) ==
    IF option = opt_name THEN str_lt(lower(a), lower(b))
    ELSE IF option = opt_date THEN os_path_getmtime(f, a) < os_path_getmtime(f, b)
    ELSE os_path_getsize(f, a) < os_path_getsize(f, b)

\* x is put before the first element whose key is greater than its own.
RECURSIVE InsertByKey(_, _, _, _)
InsertByKey(f, option, x, sorted) ==
    IF sorted = <<>> THEN <<x>>
    ELSE IF KeyLess(f, option, x, Head(sorted)) THEN <<x>> \o sorted
    ELSE <<Head(sorted)>> \o InsertByKey(f, option, x, Tail(sorted))

\* A stable ascending sort by key.
RECURSIVE StableSort(_, _, _)
StableSort(f, option, files) ==
    IF files = <<>> THEN <<>>
    ELSE InsertByKey(f, option, files[Len(files)],
                     StableSort(f, option, SubSeq(files, 1, Len(files) - 1)))

\* list.sort that ignores reverse
list_sort_ascending(f, option, files, reverse) == StableSort(f, option, files)

\* list.sort(key=..., reverse=...): with reverse the list is reversed, sorted
\* stably in ascending order and reversed again, so that equal keys keep
\* their original order in both directions.
list_sort(f, option, files, reverse) ==
    IF reverse THEN Reverse(StableSort(f, option, Reverse(files)))
    ELSE StableSort(f, option, files)

\* _sort_pdfs
_sort_pdfs(f, files, sort_option) ==
    IF sort_option = None THEN files
    ELSE LET reverse_order == startswith(sort_option, Caret)
             option == IF reverse_order THEN Tail(sort_option) ELSE sort_option
         IN IF option \in {opt_name, opt_date, opt_size}
            THEN list_sort(f, option, files, reverse_order)
            ELSE files

\* ------------------------------------------------------------------------
\* Command lines
\* ------------------------------------------------------------------------

\* FILES arguments: none; three files out of name order, two of which
\* differ only in letter case; a duplicate around a ".PDF" file; a PDF
\* without pages given by its absolute path.
FilesChoices ==
    { <<>>, <<n_b, n_A, n_a>>, <<n_a, n_cPDF, n_a>>, <<abs_z>> }

DirChoices == {cwd, other_dir}
PatternChoices == { <<"*">> \o DotPdf, <<"?">> \o DotPdf }
FromListChoices == {None, n_list}
OutputChoices == {n_merged, n_o}

MergeCommands ==
    [name : {"merge"}, yes : BOOLEAN, files : FilesChoices, dir : DirChoices,
     pattern : PatternChoices, from_list : FromListChoices, sort : SortChoices,
     output : OutputChoices, file : {None}]

CompressCommands ==
    [name : {"compress"}, yes : {FALSE}, files : {<<>>}, dir : {cwd},
     pattern : {None}, from_list : {None}, sort : {None},
     output : {n_compressed}, file : {n_a, n_b, n_pipe, abs_g, abs_z}]

SplitCommands ==
    [name : {"split"}, yes : {FALSE}, files : {<<>>}, dir : {cwd},
     pattern : {None}, from_list : {None}, sort : {None},
     output : {None}, file : {None}]

Commands == MergeCommands \cup CompressCommands \cup SplitCommands

\* The argument checks click makes before the command body runs.
Accepted(f, c) ==
    /\ \A i \in 1..Len(c.files) : ClickPathFile(f, c.files[i])
    /\ c.from_list # None => ClickPathFile(f, c.from_list)
    /\ c.name = "compress" => ClickPathFile(f, c.file)

Msg(m, file, n) == [msg |-> m, file |-> file, n |-> n]

\* ------------------------------------------------------------------------
\* State
\* ------------------------------------------------------------------------

VARIABLES
    pc,            \* position of the running command
    cmd,           \* the parsed command line
    runs,          \* number of invocations so far
    fs,            \* the file system
    fs0,           \* the file system when the current invocation started
    list_lines,    \* lines of the list file
    dir_order,     \* order in which directory entries are listed
    candidates,    \* merge: the resolved candidate paths
    pdfs,          \* merge: local variable pdfs
    preview,       \* merge: the numbered list _display_pdfs printed
    idx,           \* _merge_pdfs: index of the next file of the loop
    merger_pages,  \* _merge_pdfs: merger.pages
    merged_count,  \* _merge_pdfs: merged_count
    console,       \* messages echoed by the current invocation
    exit_code,     \* exit status of the last finished invocation
    prompted,      \* the confirmation prompt was issued
    answer,        \* the user's answer to the prompt
    unlinks,       \* files removed by the environment during this invocation
    size_before,   \* compress: size_before
    size_after,    \* compress: size_after
    percent,       \* compress: the printed reduction, in hundredths of a percent
    prev           \* what the previous invocation wrote

vars ==
    <<pc, cmd, runs, fs, fs0, list_lines, dir_order, candidates, pdfs, preview,
      idx, merger_pages, merged_count, console, exit_code, prompted, answer,
      unlinks, size_before, size_after, percent, prev>>

mergeVars == <<candidates, pdfs, preview, idx, merger_pages, merged_count>>
compressVars == <<size_before, size_after, percent>>
envVars == <<list_lines, dir_order>>
runVars == <<cmd, runs, fs0, prev>>

NoPrev == [wrote |-> FALSE, pages |-> <<>>]

Init ==
    /\ pc = "idle"
    /\ cmd = CHOOSE c \in SplitCommands : TRUE
    /\ runs = 0
    /\ \E merged_exists \in BOOLEAN : fs = InitialFS(merged_exists)
    /\ fs0 = fs
    /\ list_lines \in ListContents
    /\ dir_order \in DirOrders
    /\ candidates = <<>>
    /\ pdfs = <<>>
    /\ preview = <<>>
    /\ idx = 1
    /\ merger_pages = <<>>
    /\ merged_count = 0
    /\ console = <<>>
    /\ exit_code = 0
    /\ prompted = FALSE
    /\ answer = "none"
    /\ unlinks = 0
    /\ size_before = 0
    /\ size_after = 0
    /\ percent = 0
    /\ prev = NoPrev

\* ------------------------------------------------------------------------
\* Starting a command
\* ------------------------------------------------------------------------

\* The process starts: click parses the command line and either rejects it
\* (exit status 2) or enters the command body.
Run(c, p) ==
    /\ cmd' = c
    /\ runs' = runs + 1
    /\ fs0' = fs
    /\ prev' = p
    /\ candidates' = <<>>
    /\ pdfs' = <<>>
    /\ preview' = <<>>
    /\ idx' = 1
    /\ merger_pages' = <<>>
    /\ merged_count' = 0
    /\ prompted' = FALSE
    /\ answer' = "none"
    /\ unlinks' = 0
    /\ size_before' = 0
    /\ size_after' = 0
    /\ percent' = 0
    /\ IF Accepted(fs, c)
       THEN /\ pc' = CASE c.name = "merge" -> "resolve"
                       [] c.name = "compress" -> "c_stat"
                       [] OTHER -> "split"
            /\ console' = <<>>
            /\ exit_code' = 0
       ELSE /\ pc' = "done"
            /\ console' = <<Msg("UsageError", None, 0)>>
            /\ exit_code' = 2
    /\ UNCHANGED <<fs, envVars>>

\* The user runs one of the commands.
Invoke ==
    /\ pc = "idle"
    /\ \E c \in Commands : Run(c, NoPrev)

\* The user runs the same merge command line again.
Rerun ==
    /\ pc = "done"
    /\ cmd.name = "merge"
    /\ runs < MaxRuns
    /\ Run(cmd, [wrote |-> fs[Resolve(cmd.output)] # fs0[Resolve(cmd.output)],
                 pages |-> fs[Resolve(cmd.output)].pages])

\* ------------------------------------------------------------------------
\* merge
\* ------------------------------------------------------------------------

\* The candidate paths with the list file taking precedence over FILES
ResolveCandidates_list_first(f, order, lines, c) ==
    IF c.from_list # None THEN ReadList(lines)
    ELSE IF c.files # <<>> THEN JoinAll(c.dir, c.files)
    ELSE glob(f, order, os_path_join(c.dir, c.pattern))

\* The candidate paths of a merge command line.
ResolveCandidates(f, order, lines, c) ==
    IF c.files # <<>> THEN JoinAll(c.dir, c.files)
    ELSE IF c.from_list # None THEN ReadList(lines)
    ELSE glob(f, order, os_path_join(c.dir, c.pattern))

\* if files: ... elif from_list: ... else: pdfs = glob(...)
MergeResolve ==
    /\ pc = "resolve"
    /\ candidates' = ResolveCandidates(fs, dir_order, list_lines, cmd)
    /\ pc' = "check"
    /\ UNCHANGED <<pdfs, preview, idx, merger_pages, merged_count>>
    /\ UNCHANGED <<runVars, envVars, compressVars, fs, console, exit_code,
                   prompted, answer, unlinks>>

\* pdfs = _check_pdfs(pdfs)
MergeCheck ==
    /\ pc = "check"
    /\ pdfs' = _check_pdfs(fs, candidates)
    /\ pc' = "display"
    /\ UNCHANGED <<candidates, preview, idx, merger_pages, merged_count>>
    /\ UNCHANGED <<runVars, envVars, compressVars, fs, console, exit_code,
                   prompted, answer, unlinks>>

\* _display_pdfs(pdfs)
MergeDisplay ==
    /\ pc = "display"
    /\ preview' = pdfs
    /\ console' = Append(console, Msg("Found", None, Len(pdfs)))
    /\ pc' = "sort"
    /\ UNCHANGED <<candidates, pdfs, idx, merger_pages, merged_count>>
    /\ UNCHANGED <<runVars, envVars, compressVars, fs, exit_code,
                   prompted, answer, unlinks>>

\* if sort: pdfs = _sort_pdfs(pdfs, sort)
MergeSort ==
    /\ pc = "sort"
    /\ pdfs' = IF cmd.sort # None THEN _sort_pdfs(fs, pdfs, cmd.sort) ELSE pdfs
    /\ console' = IF cmd.sort # None
                  THEN Append(console, Msg("Sorting", cmd.sort, 0))
                  ELSE console
    /\ pc' = "nonempty"
    /\ UNCHANGED <<candidates, preview, idx, merger_pages, merged_count>>
    /\ UNCHANGED <<runVars, envVars, compressVars, fs, exit_code,
                   prompted, answer, unlinks>>

\* if not pdfs: echo "No PDFs found."; return
MergeNoPdfs ==
    /\ pc = "nonempty"
    /\ IF pdfs = <<>>
       THEN /\ console' = Append(console, Msg("NoPDFsFound", None, 0))
            /\ pc' = "done"
       ELSE /\ console' = console
            /\ pc' = "confirm"
    /\ UNCHANGED <<mergeVars, runVars, envVars, compressVars, fs, exit_code,
                   prompted, answer, unlinks>>

\* The prompt asked of the wrong command lines
NeedsConfirm_inverted(c) == c.yes

\* if not yes
NeedsConfirm(c) == ~c.yes

\* if not yes: click.confirm(..., abort=True)
MergeConfirm ==
    /\ pc = "confirm"
    /\ IF ~NeedsConfirm(cmd)
       THEN /\ pc' = "append"
            /\ UNCHANGED <<prompted, answer, console, exit_code>>
       ELSE \E a \in {"y", "n"} :
            /\ prompted' = TRUE
            /\ answer' = a
            /\ IF a = "y"
               THEN /\ pc' = "append"
                    /\ UNCHANGED <<console, exit_code>>
               ELSE /\ pc' = "done"
                    /\ console' = Append(console, Msg("Aborted", None, 0))
                    /\ exit_code' = 1
    /\ UNCHANGED <<mergeVars, runVars, envVars, compressVars, fs, unlinks>>

\* merger.append(file): the outcome of appending one file
AppendOutcome(f, file) ==
    IF Stat(f, file).kind = "none" THEN "NotFound"
    ELSE IF ~Stat(f, file).pdf THEN "Error"
    ELSE "Appended"

\* merged_count incremented for every file
NextCount_every_file(count, outcome) == count + 1

\* merged_count += 1, reached only when append did not raise
NextCount(count, outcome) == IF outcome = "Appended" THEN count + 1 ELSE count

\* One iteration of the loop of _merge_pdfs
MergeAppend ==
    /\ pc = "append"
    /\ idx <= Len(pdfs)
    /\ LET file == pdfs[idx]
           outcome == AppendOutcome(fs, file)
       IN /\ console' = Append(console, Msg(outcome, file, 0))
          /\ IF outcome = "Appended"
             THEN merger_pages' = merger_pages \o Stat(fs, file).pages
             ELSE merger_pages' = merger_pages
          /\ merged_count' = NextCount(merged_count, outcome)
    /\ idx' = idx + 1
    /\ UNCHANGED <<pc, candidates, pdfs, preview>>
    /\ UNCHANGED <<runVars, envVars, compressVars, fs, exit_code,
                   prompted, answer, unlinks>>

\* The output written whatever was appended
ShouldWrite_always(pages) == TRUE

\* if merger.pages
ShouldWrite(pages) == pages # <<>>

\* if merger.pages: merger.write(output_file); merger.close()
MergeWrite ==
    /\ pc = "append"
    /\ idx > Len(pdfs)
    /\ fs' = IF ShouldWrite(merger_pages)
             THEN WritePdf(fs, cmd.output, merger_pages)
             ELSE fs
    /\ pc' = "report"
    /\ UNCHANGED <<mergeVars, runVars, envVars, compressVars, console, exit_code,
                   prompted, answer, unlinks>>

\* if merged_count: echo "Merged ..." else: echo "No valid PDFs found to merge."
MergeReport ==
    /\ pc = "report"
    /\ console' = IF merged_count # 0
                  THEN Append(console, Msg("Merged", cmd.output, merged_count))
                  ELSE Append(console, Msg("NoValidPDFs", None, 0))
    /\ pc' = "done"
    /\ UNCHANGED <<mergeVars, runVars, envVars, compressVars, fs, exit_code,
                   prompted, answer, unlinks>>

\* Another process removes a file that is still to be appended, after it
\* was validated: the file is then not found at append time.
EnvUnlink ==
    /\ pc = "append"
    /\ unlinks < MaxUnlinks
    /\ \E i \in idx..Len(pdfs) :
        /\ Stat(fs, pdfs[i]).kind = "file"
        /\ Resolve(pdfs[i]) # Resolve(cmd.output)
        /\ fs' = [fs EXCEPT ![Resolve(pdfs[i])] = NoFile]
    /\ unlinks' = unlinks + 1
    /\ UNCHANGED <<pc, mergeVars, runVars, envVars, compressVars, console,
                   exit_code, prompted, answer>>

\* ------------------------------------------------------------------------
\* split
\* ------------------------------------------------------------------------

Split ==
    /\ pc = "split"
    /\ console' = Append(console, Msg("SplitNotImplemented", None, 0))
    /\ pc' = "done"
    /\ UNCHANGED <<mergeVars, runVars, envVars, compressVars, fs, exit_code,
                   prompted, answer, unlinks>>

\* ------------------------------------------------------------------------
\* compress
\* ------------------------------------------------------------------------

\* size_before = os.path.getsize(file)
CompressStat ==
    /\ pc = "c_stat"
    /\ size_before' = os_path_getsize(fs, cmd.file)
    /\ pc' = "c_run"
    /\ UNCHANGED <<size_after, percent>>
    /\ UNCHANGED <<mergeVars, runVars, envVars, fs, console, exit_code,
                   prompted, answer, unlinks>>

\* PdfReader(file): reading bytes that are not a PDF raises
PdfReaderRaises(f, file) == ~Stat(f, file).pdf

\* output_file, size_after = _compress_pdf(file, output)
CompressPdf ==
    /\ pc = "c_run"
    /\ IF PdfReaderRaises(fs, cmd.file)
       THEN /\ console' = Append(console, Msg("PdfReadError", cmd.file, 0))
            /\ exit_code' = 1
            /\ pc' = "done"
            /\ UNCHANGED <<fs, size_after>>
       ELSE /\ fs' = WritePdf(fs, cmd.output, Stat(fs, cmd.file).pages)
            /\ size_after' = os_path_getsize(fs', cmd.output)
            /\ pc' = "c_report"
            /\ UNCHANGED <<console, exit_code>>
    /\ UNCHANGED <<size_before, percent>>
    /\ UNCHANGED <<mergeVars, runVars, envVars, prompted, answer, unlinks>>

\* The three echo calls of compress; the last one divides by size_before.
CompressReport ==
    /\ pc = "c_report"
    /\ IF size_before = 0
       THEN /\ console' = console \o
                   << Msg("Compressed", cmd.output, 0),
                      Msg("SizeBefore", None, size_before),
                      Msg("ZeroDivisionError", None, 0) >>
            /\ exit_code' = 1
            /\ percent' = percent
       ELSE /\ percent' = ((size_before - size_after) * 10000) \div size_before
            /\ console' = console \o
                   << Msg("Compressed", cmd.output, 0),
                      Msg("SizeBefore", None, size_before),
                      Msg("SizeAfter", None, size_after) >>
            /\ exit_code' = exit_code
    /\ pc' = "done"
    /\ UNCHANGED <<size_before, size_after>>
    /\ UNCHANGED <<mergeVars, runVars, envVars, fs, prompted, answer, unlinks>>

\* ------------------------------------------------------------------------
\* Specification
\* ------------------------------------------------------------------------

Next ==
    \/ Invoke
    \/ Rerun
    \/ MergeResolve
    \/ MergeCheck
    \/ MergeDisplay
    \/ MergeSort
    \/ MergeNoPdfs
    \/ MergeConfirm
    \/ MergeAppend
    \/ MergeWrite
    \/ MergeReport
    \/ EnvUnlink
    \/ Split
    \/ CompressStat
    \/ CompressPdf
    \/ CompressReport

Spec == Init /\ [][Next]_vars

\* ------------------------------------------------------------------------
\* Properties
\* ------------------------------------------------------------------------

InMerge == cmd.name = "merge" /\ runs > 0

OutPath == Resolve(cmd.output)

IsLoopMsg(m) == m.msg \in {"Appended", "NotFound", "Error"}

\* What the loop of _merge_pdfs echoed, one message per visited file.
LoopLog == SelectSeq(console, IsLoopMsg)

LastMsg == console[Len(console)].msg

RECURSIVE Flatten(_)
Flatten(ss) == IF ss = <<>> THEN <<>> ELSE Head(ss) \o Flatten(Tail(ss))

\* The path is a regular file and its last four characters are ".pdf".
IsExistingPdfPath(f, p) ==
    /\ Resolve(p) \in DOMAIN f
    /\ f[Resolve(p)].kind = "file"
    /\ Len(p) >= 4
    /\ p[Len(p) - 3] = "." /\ p[Len(p) - 2] = "p"
    /\ p[Len(p) - 1] = "d" /\ p[Len(p)] = "f"

\* C1: right after validation, pdfs is exactly the subsequence of the
\* candidates that are existing regular files with the case-sensitive suffix
\* ".pdf", in input order with duplicates kept, and no error was raised.
C1_CheckPdfsIsOrderedFilter ==
    pc = "display" =>
        LET kept == {j \in 1..Len(candidates) : IsExistingPdfPath(fs, candidates[j])}
            nth(i) == CHOOSE j \in kept : Cardinality({k \in kept : k < j}) = i - 1
        IN /\ Len(pdfs) = Cardinality(kept)
           /\ \A i \in 1..Len(pdfs) : pdfs[i] = candidates[nth(i)]
           /\ exit_code = 0

\* A duplicate kept around a dropped ".PDF" candidate.
C1_Witness ==
    /\ pc = "display"
    /\ Len(candidates) = 3
    /\ candidates[2] = os_path_join(cmd.dir, n_cPDF)
    /\ pdfs = <<candidates[1], candidates[3]>>
    /\ candidates[1] = candidates[3]

\* C2: the loop visits every file in list order whatever fails, a failure
\* never ends the command, merged_count is the number of successful appends,
\* and the accumulated (and written) pages are those of the successful files
\* in list order.
C2_LoopSkipsFailuresAndCounts ==
    InMerge =>
        /\ \A i \in 1..Len(LoopLog) : LoopLog[i].file = pdfs[i]
        /\ pc = "append" => Len(LoopLog) = idx - 1
        /\ Len(LoopLog) > 0 /\ pc # "append" =>
              /\ Len(LoopLog) = Len(pdfs)
              /\ exit_code = 0
        /\ merged_count = Cardinality({i \in 1..Len(LoopLog) : LoopLog[i].msg = "Appended"})
        /\ merger_pages =
              Flatten([i \in 1..Len(LoopLog) |->
                         IF LoopLog[i].msg = "Appended"
                         THEN Stat(fs0, LoopLog[i].file).pages ELSE <<>>])
        /\ pc \in {"report", "done"} /\ merger_pages # <<>> =>
              fs[OutPath].pages = merger_pages

\* One of three files is not found, the two after it are appended.
C2_Witness ==
    /\ InMerge
    /\ pc = "report"
    /\ Len(pdfs) = 3
    /\ LoopLog[1].msg = "NotFound"
    /\ merged_count = 2
    /\ fs[OutPath].pages = Stat(fs0, pdfs[2]).pages \o Stat(fs0, pdfs[3]).pages

\* C3: while merged_count is 0 the output path is as it was when the
\* command started; the output is written only with a non-zero count.
C3_NoWriteWhenCountZero ==
    InMerge /\ merged_count = 0 => fs[OutPath] = fs0[OutPath]

\* Every append failed and the existing output file was left alone.
C3_Witness ==
    /\ InMerge
    /\ pc = "done"
    /\ Len(LoopLog) = 2
    /\ merged_count = 0
    /\ fs0[OutPath].kind = "file"
    /\ fs[OutPath] = fs0[OutPath]

\* C4: when the merge step appended no page and so wrote no output, the
\* command reports "No valid PDFs found to merge." and not "Merged k PDFs".
C4_NoPagesReportsNoValidPdfs ==
    InMerge /\ pc = "done" /\ Len(LoopLog) > 0 /\ merger_pages = <<>> =>
        LastMsg = "NoValidPDFs"

\* C5: the candidates are the explicit files when any are given, otherwise
\* those of the list file when one is given, otherwise the glob expansion;
\* the other sources contribute nothing.
C5_SourcePrecedence ==
    pc = "check" =>
        LET from_files == [i \in 1..Len(cmd.files) |-> os_path_join(cmd.dir, cmd.files[i])]
            from_listfile == ReadList(list_lines)
            from_glob == glob(fs, dir_order, os_path_join(cmd.dir, cmd.pattern))
        IN /\ cmd.files # <<>> => candidates = from_files
           /\ cmd.files = <<>> /\ cmd.from_list # None => candidates = from_listfile
           /\ cmd.files = <<>> /\ cmd.from_list = None => candidates = from_glob

\* Files and a list file are both given, all three sources are non-empty and
\* differ, and the candidates are the files.
C5_Witness ==
    /\ pc = "check"
    /\ cmd.files # <<>>
    /\ cmd.from_list # None
    /\ ReadList(list_lines) # <<>>
    /\ glob(fs, dir_order, os_path_join(cmd.dir, cmd.pattern)) # <<>>
    /\ candidates # ReadList(list_lines)
    /\ candidates # glob(fs, dir_order, os_path_join(cmd.dir, cmd.pattern))
    /\ candidates = JoinAll(cmd.dir, cmd.files)

Distinct(s) == \A i, j \in 1..Len(s) : i # j => s[i] # s[j]

LowerDistinct(s) == \A i, j \in 1..Len(s) : i # j => lower(s[i]) # lower(s[j])

Occurrences(s, x) == Cardinality({i \in 1..Len(s) : s[i] = x})

IsPermutation(s, t) ==
    /\ Len(s) = Len(t)
    /\ \A i \in 1..Len(s) : Occurrences(s, s[i]) = Occurrences(t, s[i])

IndexOf(s, x) == CHOOSE i \in 1..Len(s) : s[i] = x

\* C6 as stated: for pairwise distinct path strings, "^name" gives the exact
\* reverse of what "name" gives for the same input.
C6_CaretNameReversesDistinctPaths ==
    pc = "nonempty" /\ cmd.sort = Caret \o opt_name /\ Distinct(preview) =>
        pdfs = Reverse(_sort_pdfs(fs, preview, opt_name))

\* C6 amended: "name" orders a list of distinct paths by the lower-cased
\* path and "^name" orders it the other way, both keeping input order
\* between equal keys; "^name" gives the exact reverse of "name" when the
\* lower-cased paths are pairwise distinct.
C6_CaretNameReversesDistinctKeys ==
    /\ pc = "nonempty" /\ cmd.sort = opt_name /\ Distinct(preview) =>
          /\ IsPermutation(pdfs, preview)
          /\ \A i, j \in 1..Len(pdfs) : i < j =>
                /\ ~str_lt(lower(pdfs[j]), lower(pdfs[i]))
                /\ lower(pdfs[i]) = lower(pdfs[j]) =>
                      IndexOf(preview, pdfs[i]) < IndexOf(preview, pdfs[j])
    /\ pc = "nonempty" /\ cmd.sort = Caret \o opt_name /\ Distinct(preview) =>
          /\ IsPermutation(pdfs, preview)
          /\ \A i, j \in 1..Len(pdfs) : i < j =>
                /\ ~str_lt(lower(pdfs[i]), lower(pdfs[j]))
                /\ lower(pdfs[i]) = lower(pdfs[j]) =>
                      IndexOf(preview, pdfs[i]) < IndexOf(preview, pdfs[j])
    /\ pc = "nonempty" /\ cmd.sort = Caret \o opt_name /\ LowerDistinct(preview) =>
          pdfs = Reverse(_sort_pdfs(fs, preview, opt_name))

\* Sorting by "^name" reordered a list whose lower-cased paths differ.
C6_Witness ==
    /\ pc = "nonempty"
    /\ cmd.sort = Caret \o opt_name
    /\ Len(preview) >= 2
    /\ LowerDistinct(preview)
    /\ pdfs # preview
    /\ pdfs = Reverse(_sort_pdfs(fs, preview, opt_name))

\* C7: the files are appended in the order the numbered preview showed.
C7_PreviewOrderIsAppendOrder ==
    InMerge /\ pc = "report" =>
        [i \in 1..Len(LoopLog) |-> LoopLog[i].file] = preview

\* C8: without --yes nothing is appended or written before the user has
\* said yes; a declined prompt ends the command with a non-zero status and
\* an unchanged file system; with --yes the prompt is never issued.
C8_ConfirmBeforeMerge ==
    InMerge =>
        /\ ~cmd.yes /\ (Len(LoopLog) > 0 \/ fs # fs0 \/ pc \in {"append", "report"}) =>
              prompted /\ answer = "y"
        /\ answer = "n" =>
              /\ pc = "done"
              /\ exit_code # 0
              /\ fs = fs0
              /\ LoopLog = <<>>
        /\ cmd.yes => ~prompted

\* The user declined the merge of a non-empty list.
C8_Witness ==
    /\ InMerge
    /\ ~cmd.yes
    /\ pdfs # <<>>
    /\ prompted
    /\ answer = "n"
    /\ pc = "done"
    /\ exit_code = 1
    /\ fs = fs0

\* C9: compress never ends with a division-by-zero fault, whatever the size
\* of the accepted input.
C9_NoDivisionByZero ==
    cmd.name = "compress" =>
        \A i \in 1..Len(console) : console[i].msg # "ZeroDivisionError"

\* C10: in directory+pattern mode, the file an earlier run of the same
\* command line wrote is never appended by a later run, and the later run
\* writes the same pages.
C10_OutputNeverReMerged ==
    InMerge /\ runs > 1 /\ cmd.files = <<>> /\ cmd.from_list = None /\ prev.wrote =>
        /\ \A i \in 1..Len(LoopLog) :
              LoopLog[i].msg = "Appended" => Resolve(LoopLog[i].file) # OutPath
        /\ pc = "done" /\ unlinks = 0 => fs[OutPath].pages = prev.pages

====
